---- MODULE Spec2Model ----
(***************************************************************************)
(* WelcomeScreen (src/src/screens/WelcomeScreen.tsx): the map screen's     *)
(* location effect, follow mode, loader guard and the scale-bar estimate.  *)
(*                                                                         *)
(* Numbers.  Degrees of latitude are integers; a longitude span is an      *)
(* integer number of millidegrees (0.01 degree = 10).  Every other real    *)
(* quantity (cosine, meters, meters per pixel, pixels) is an exact         *)
(* rational <<n, d>> in lowest terms with d > 0.  Math.cos is a table of   *)
(* its values rounded to two decimals.                                     *)
(***************************************************************************)
EXTENDS Integers, Sequences, FiniteSets, Bags, TLC

VARIABLES
    region,     \* useState<Region | null>: NULL or [latitude, longitude, latitudeDelta, longitudeDelta]
    loading,    \* useState(true)
    follow,     \* useState(true)
    screenW,    \* SCREEN_W, Dimensions.get('window').width
    platform,   \* Platform.OS
    mapRef,     \* TRUE iff mapRef.current is a mounted MapView
    scale,      \* what the last render put in the scale bar, NoScale while the loader shows
    runs,       \* runs of the location effect that have not finished their synchronous part
    nRuns,      \* how many times the location effect has been scheduled
    gets,       \* bag of getCurrentPosition requests whose callback is still to come
    timers,     \* bag of pending setTimeout(() => mapRef.current?.animateToRegion(next, 600), 50)
    watches,    \* active position watches, in registration order (index = watchId)
    anim        \* the last step that called animateToRegion

vars == <<region, loading, follow, screenW, platform, mapRef, scale, runs, nRuns, gets,
          timers, watches, anim>>

NULL == [null |-> TRUE]

----------------------------------------------------------------------------
(* Exact rational arithmetic *)

RECURSIVE GCD(_, _)
GCD(a, b) == IF b = 0 THEN a ELSE GCD(b, a % b)

\* n/d in lowest terms (n >= 0, d > 0)
Norm(n, d) == LET g == GCD(n, d) IN <<n \div g, d \div g>>

Rat(k) == <<k, 1>>

\* p * q, cancelling across before multiplying
RMul(p, q) ==
    LET g1 == GCD(p[1], q[2])
        g2 == GCD(q[1], p[2])
    IN  Norm((p[1] \div g1) * (q[1] \div g2), (p[2] \div g2) * (q[2] \div g1))

\* p / q, q > 0
RDiv(p, q) == RMul(p, <<q[2], q[1]>>)

\* comparisons of a rational with an integer, by the floor of the quotient
RFloor(p) == p[1] \div p[2]
RGeqInt(p, k) == RFloor(p) >= k
RLtInt(p, k) == RFloor(p) < k
RLeqInt(p, k) == RFloor(p) < k \/ (RFloor(p) = k /\ p[1] % p[2] = 0)
RGtInt(p, k) == ~RLeqInt(p, k)

\* Math.min / Math.max of an integer and a rational
MinIntRat(k, p) == IF RLeqInt(p, k) THEN p ELSE Rat(k)
MaxIntRat(k, p) == IF RGeqInt(p, k) THEN p ELSE Rat(k)

----------------------------------------------------------------------------
(* The scale bar: lines 215-230 and 322 *)

\* Latitudes the model draws from, with Math.cos((lat * Math.PI) / 180) to
\* two decimals, in hundredths.
LatSet == {-60, 0, 37, 60, 84, 87}
CosCenti == [lat \in LatSet |->
    CASE lat = 0 -> 100
      [] lat = 37 -> 80
      [] lat = 60 -> 50
      [] lat = -60 -> 50
      [] lat = 84 -> 10
      [] lat = 87 -> 5]
Cos(lat) == Norm(CosCenti[lat], 100)

MetersPerDegree == 111320

\* a longitudeDelta in millidegrees, as degrees
Degrees(span) == Norm(span, 1000)

metersPerPixel(latitude, longitudeDelta, width) ==
    LET metersPerDegreeLon == RMul(Cos(latitude), Rat(MetersPerDegree))
        viewportMeters == RMul(metersPerDegreeLon, Degrees(longitudeDelta))
    IN  RDiv(viewportMeters, Rat(width))

niceScales == <<10, 20, 50, 100, 200, 500, 1000, 2000>>

ReadableMinPx == 60
ReadableMaxPx == 160
BarMinPx == 40
BarMaxPx == 200

\* const px = m / metersPerPixel
PxOf(m, mpp) == RDiv(Rat(m), mpp)

\* let scaleMeters = niceScales[0]
InitialScale == niceScales[1]

\* The for loop from candidate i on, acc being scaleMeters so far.
RECURSIVE ScanScalesNoFallback(_, _, _)
ScanScalesNoFallback(i, acc, mpp) ==
    IF i > Len(niceScales) THEN acc
    ELSE LET m == niceScales[i]
             px == PxOf(m, mpp)
         IN  IF RGeqInt(px, ReadableMinPx) /\ RLeqInt(px, ReadableMaxPx) THEN m
             ELSE ScanScalesNoFallback(i + 1, acc, mpp)

RECURSIVE ScanScalesNoBreak(_, _, _)
ScanScalesNoBreak(i, acc, mpp) ==
    IF i > Len(niceScales) THEN acc
    ELSE LET m == niceScales[i]
             px == PxOf(m, mpp)
         IN  IF RGeqInt(px, ReadableMinPx) /\ RLeqInt(px, ReadableMaxPx)
             THEN ScanScalesNoBreak(i + 1, m, mpp)
             ELSE IF RLtInt(px, ReadableMinPx) THEN ScanScalesNoBreak(i + 1, m, mpp)
             ELSE ScanScalesNoBreak(i + 1, acc, mpp)

RECURSIVE ScanScales(_, _, _)
ScanScales(i, acc, mpp) ==
    IF i > Len(niceScales) THEN acc
    ELSE LET m == niceScales[i]
             px == PxOf(m, mpp)
         IN  IF RGeqInt(px, ReadableMinPx) /\ RLeqInt(px, ReadableMaxPx) THEN m
             ELSE IF RLtInt(px, ReadableMinPx) THEN ScanScales(i + 1, m, mpp)
             ELSE ScanScales(i + 1, acc, mpp)

SelectScaleFromZero(mpp) == ScanScales(1, 0, mpp)
SelectScale(mpp) == ScanScales(1, InitialScale, mpp)

\* Math.max(40, Math.min(200, scaleMeters / metersPerPixel))
ClampPxUpperOnly(px) == MinIntRat(BarMaxPx, px)
ClampPx(px) == MaxIntRat(BarMinPx, MinIntRat(BarMaxPx, px))

\* Number.prototype.toFixed(1) of n/d: the nearest tenth, halves up
ToFixed1(n, d) ==
    LET tenths == (20 * n + d) \div (2 * d)
    IN  ToString(tenths \div 10) \o "." \o ToString(tenths % 10)

ScaleTxtStrict(m) ==
    IF m > 1000 THEN ToFixed1(m, 1000) \o " km" ELSE ToString(m) \o " m"
ScaleTxt(m) ==
    IF m >= 1000 THEN ToFixed1(m, 1000) \o " km" ELSE ToString(m) \o " m"

NoScale == [scaleMeters |-> 0, scalePx |-> Rat(0), scaleTxt |-> ""]

\* What one render puts in the scale bar.
EstimateScale(latitude, longitudeDelta, width) ==
    LET mpp == metersPerPixel(latitude, longitudeDelta, width)
        scaleMeters == SelectScale(mpp)
    IN  [scaleMeters |-> scaleMeters,
         scalePx |-> ClampPx(PxOf(scaleMeters, mpp)),
         scaleTxt |-> ScaleTxt(scaleMeters)]

\* if (!region || loading) return <loader/>
Rendered(r, l) == ~(r = NULL \/ l)

\* Viewports the model draws from: longitude spans in millidegrees, widths in pixels
SpanSet == {1, 2, 5, 10, 20, 50, 100, 200, 500, 1000}
WidthSet == {360, 1000}

\* The estimate as a function of the viewport, tabulated once (f @@ <<>> is f, enumerated)
ScaleBar ==
    [v \in LatSet \X SpanSet \X WidthSet |-> EstimateScale(v[1], v[2], v[3])] @@ <<>>

ScaleShown(r, l, w) ==
    IF Rendered(r, l) THEN ScaleBar[<<r.latitude, r.longitudeDelta, w>>] ELSE NoScale

----------------------------------------------------------------------------
(* The screen: state, location effect (lines 80-145), handlers (165-185) *)

MaxRuns == 3    \* runs of the location effect (mount + follow changes)
MaxGets == 2    \* getCurrentPosition requests in flight

DeviceWidth == 360
DefaultDelta == 10      \* 0.01 degree

\* Positions the device may report
Coords == {[latitude |-> 0, longitude |-> 0], [latitude |-> 60, longitude |-> 25]}

Platforms == {"android", "ios"}

\* region?.latitudeDelta ?? 0.01 and region?.longitudeDelta ?? 0.01
LatDeltaOr(r) == IF r = NULL THEN DefaultDelta ELSE r.latitudeDelta
LonDeltaOr(r) == IF r = NULL THEN DefaultDelta ELSE r.longitudeDelta

\* What a render's closures capture of follow and region
Closure(f, r) == [follow |-> f, latitudeDelta |-> LatDeltaOr(r), longitudeDelta |-> LonDeltaOr(r)]

NoAnim == [seq |-> 0, by |-> "none", latitude |-> 0, longitude |-> 0,
           latitudeDelta |-> 0, longitudeDelta |-> 0]

\* A step that calls mapRef.current.animateToRegion, its last call being to `target`
Animate(by, target) ==
    [seq |-> 1 - anim.seq, by |-> by,
     latitude |-> target.latitude, longitude |-> target.longitude,
     latitudeDelta |-> target.latitudeDelta, longitudeDelta |-> target.longitudeDelta]

One(x) == SetToBag({x})

\* The re-render that follows a state update
Render(r, l) ==
    /\ mapRef' = Rendered(r, l)
    /\ scale' = ScaleShown(r, l, screenW)

Init ==
    /\ region = NULL
    /\ loading = TRUE
    /\ follow = TRUE
    /\ screenW = DeviceWidth
    /\ mapRef = FALSE
    /\ scale = NoScale
    /\ platform \in Platforms
    /\ runs = One([phase |-> "start", env |-> Closure(TRUE, NULL)])
    /\ nRuns = 1
    /\ gets = EmptyBag
    /\ timers = EmptyBag
    /\ watches = <<>>
    /\ anim = NoAnim

\* useEffect(..., [follow]): a render in which follow changed schedules the effect,
\* whose closures are that render's.
ScheduleEffect(f, r) ==
    /\ nRuns < MaxRuns
    /\ nRuns' = nRuns + 1
    /\ runs' = runs (+) One([phase |-> "start", env |-> Closure(f, r)])

\* Lines 97-137: getCurrentPosition, then watchPosition.  The function returned at
\* line 137 is the value of the async function's promise; the effect callback itself
\* returns nothing, so React holds no cleanup and clearWatch is never called.
StartGeolocation(run) ==
    /\ gets' = gets (+) One([kind |-> "effect", env |-> run.env])
    /\ watches' = Append(watches, run.env)

\* The effect runs requestLocationPermission() up to its first await (line 84),
\* or to its end where Platform.OS is not android.
RequestLocationPermission(run) ==
    /\ BagIn(run, runs)
    /\ run.phase = "start"
    /\ IF platform = "android"
       THEN /\ runs' = (runs (-) One(run)) (+) One([run EXCEPT !.phase = "awaiting"])
            /\ UNCHANGED <<gets, watches>>
       ELSE /\ runs' = runs (-) One(run)
            /\ StartGeolocation(run)
    /\ UNCHANGED <<region, loading, follow, screenW, platform, mapRef, scale, nRuns,
                   timers, anim>>

PermissionOutcomes == {"granted", "denied", "throws"}

\* PermissionsAndroid.requestMultiple settles: lines 88-95, 138-141
PermissionSettled(run, outcome) ==
    /\ BagIn(run, runs)
    /\ run.phase = "awaiting"
    /\ runs' = runs (-) One(run)
    /\ IF outcome = "granted"
       THEN /\ StartGeolocation(run)
            /\ UNCHANGED <<loading, mapRef, scale>>
       ELSE /\ loading' = FALSE
            /\ Render(region, FALSE)
            /\ UNCHANGED <<gets, watches>>
    /\ UNCHANGED <<region, follow, screenW, platform, nRuns, timers, anim>>

\* getCurrentPosition success callback of the effect, lines 98-109
FirstPositionKeepLoading(get, coords) ==
    /\ BagIn(get, gets)
    /\ get.kind = "effect"
    /\ LET next == [latitude |-> coords.latitude, longitude |-> coords.longitude,
                    latitudeDelta |-> DefaultDelta, longitudeDelta |-> DefaultDelta]
       IN  /\ region' = next
           /\ timers' = timers (+) One(next)
           /\ Render(next, loading)
    /\ gets' = gets (-) One(get)
    /\ UNCHANGED <<loading, follow, screenW, platform, runs, nRuns, watches, anim>>

FirstPosition(get, coords) ==
    /\ BagIn(get, gets)
    /\ get.kind = "effect"
    /\ LET next == [latitude |-> coords.latitude, longitude |-> coords.longitude,
                    latitudeDelta |-> DefaultDelta, longitudeDelta |-> DefaultDelta]
       IN  /\ region' = next
           /\ loading' = FALSE
           /\ timers' = timers (+) One(next)
           /\ Render(next, FALSE)
    /\ gets' = gets (-) One(get)
    /\ UNCHANGED <<follow, screenW, platform, runs, nRuns, watches, anim>>

\* getCurrentPosition error callback of the effect, lines 110-113
FirstPositionFailed(get) ==
    /\ BagIn(get, gets)
    /\ get.kind = "effect"
    /\ loading' = FALSE
    /\ Render(region, FALSE)
    /\ gets' = gets (-) One(get)
    /\ UNCHANGED <<region, follow, screenW, platform, runs, nRuns, timers, watches, anim>>

\* setTimeout(() => mapRef.current?.animateToRegion(next, 600), 50), line 108
CenterTimer(next) ==
    /\ BagIn(next, timers)
    /\ timers' = timers (-) One(next)
    /\ anim' = IF mapRef THEN Animate("timer", next) ELSE anim
    /\ UNCHANGED <<region, loading, follow, screenW, platform, mapRef, scale, runs,
                   nRuns, gets, watches>>

\* setRegion(prev => ...) of the watch callback, lines 119-123
WatchRegion(prev, coords) ==
    IF prev # NULL
    THEN [prev EXCEPT !.latitude = coords.latitude, !.longitude = coords.longitude]
    ELSE [latitude |-> coords.latitude, longitude |-> coords.longitude,
          latitudeDelta |-> DefaultDelta, longitudeDelta |-> DefaultDelta]

\* if (follow) of the watch callback's closure, line 124
WatchAnimatesInverted(w) == ~w.follow
WatchAnimates(w) == w.follow

\* The device reports a position: the success callback of every active watch runs,
\* in registration order, before the next render (lines 118-132).  Each callback's
\* setRegion(prev => ...) writes the same coordinates, so applying it once is all of them.
LocationUpdate(coords) ==
    /\ watches # <<>>
    /\ region' = WatchRegion(region, coords)
    /\ LET callers == {i \in 1..Len(watches) : WatchAnimates(watches[i])}
           last == CHOOSE i \in callers : \A j \in callers : j <= i
       IN  anim' = IF mapRef /\ callers # {}
                   THEN Animate("watch",
                                [latitude |-> coords.latitude,
                                 longitude |-> coords.longitude,
                                 latitudeDelta |-> watches[last].latitudeDelta,
                                 longitudeDelta |-> watches[last].longitudeDelta])
                   ELSE anim
    /\ Render(region', loading)
    /\ UNCHANGED <<loading, follow, screenW, platform, runs, nRuns, gets, timers, watches>>

\* onRegionChange / onPanDrag of the MapView, lines 183-185, 248-249
onRegionWillChange ==
    /\ mapRef
    /\ follow
    /\ follow' = FALSE
    /\ ScheduleEffect(FALSE, region)
    /\ UNCHANGED <<region, loading, screenW, platform, mapRef, scale, gets, timers,
                   watches, anim>>

\* The follow chip and the FAB's "Centrar", lines 165-181: the synchronous part
handleRecenter ==
    /\ mapRef
    /\ BagCardinality(gets) < MaxGets
    /\ follow' = TRUE
    /\ IF follow THEN UNCHANGED <<runs, nRuns>> ELSE ScheduleEffect(TRUE, region)
    /\ gets' = gets (+) One([kind |-> "recenter", env |-> Closure(follow, region)])
    /\ UNCHANGED <<region, loading, screenW, platform, mapRef, scale, timers, watches, anim>>

\* handleRecenter's getCurrentPosition success callback, lines 168-177
Recentered(get, coords) ==
    /\ BagIn(get, gets)
    /\ get.kind = "recenter"
    /\ gets' = gets (-) One(get)
    /\ LET next == [latitude |-> coords.latitude, longitude |-> coords.longitude,
                    latitudeDelta |-> get.env.latitudeDelta,
                    longitudeDelta |-> get.env.longitudeDelta]
       IN  /\ region' = next
           /\ anim' = IF mapRef THEN Animate("recenter", next) ELSE anim
           /\ Render(next, loading)
    /\ UNCHANGED <<loading, follow, screenW, platform, runs, nRuns, timers, watches>>

\* handleRecenter's getCurrentPosition error callback, line 178: () => {}
RecenterFailed(get) ==
    /\ BagIn(get, gets)
    /\ get.kind = "recenter"
    /\ gets' = gets (-) One(get)
    /\ UNCHANGED <<region, loading, follow, screenW, platform, mapRef, scale, runs,
                   nRuns, timers, watches, anim>>

EffectStep ==
    \/ \E run \in BagToSet(runs) : RequestLocationPermission(run)
    \/ \E run \in BagToSet(runs), outcome \in PermissionOutcomes : PermissionSettled(run, outcome)

FirstPositionSettled ==
    \/ \E get \in BagToSet(gets), coords \in Coords : FirstPosition(get, coords)
    \/ \E get \in BagToSet(gets) : FirstPositionFailed(get)

Next ==
    \/ \E run \in BagToSet(runs) : RequestLocationPermission(run)
    \/ \E run \in BagToSet(runs), outcome \in PermissionOutcomes : PermissionSettled(run, outcome)
    \/ \E get \in BagToSet(gets), coords \in Coords : FirstPosition(get, coords)
    \/ \E get \in BagToSet(gets) : FirstPositionFailed(get)
    \/ \E next \in BagToSet(timers) : CenterTimer(next)
    \/ \E coords \in Coords : LocationUpdate(coords)
    \/ onRegionWillChange
    \/ handleRecenter
    \/ \E get \in BagToSet(gets), coords \in Coords : Recentered(get, coords)
    \/ \E get \in BagToSet(gets) : RecenterFailed(get)

Spec == Init /\ [][Next]_vars

\* The permission dialog is answered and getCurrentPosition calls back (it has a timeout).
FairSpec == Spec /\ WF_vars(EffectStep) /\ WF_vars(FirstPositionSettled)

----------------------------------------------------------------------------
(* The scale estimate on its own: viewports drawn from LatSet, SpanSet, WidthSet *)

ViewRegions ==
    {[latitude |-> lat, longitude |-> 0, latitudeDelta |-> span, longitudeDelta |-> span] :
        lat \in LatSet, span \in SpanSet}

ScaleInit ==
    /\ region \in ViewRegions
    /\ loading = FALSE
    /\ follow = TRUE
    /\ screenW \in WidthSet
    /\ platform = "ios"
    /\ mapRef = TRUE
    /\ scale = NoScale
    /\ runs = EmptyBag
    /\ nRuns = 1
    /\ gets = EmptyBag
    /\ timers = EmptyBag
    /\ watches = <<>>
    /\ anim = NoAnim

\* A render computes the scale bar of the current viewport
RenderScaleBar ==
    /\ scale = NoScale
    /\ scale' = ScaleShown(region, loading, screenW)
    /\ UNCHANGED <<region, loading, follow, screenW, platform, mapRef, runs, nRuns, gets,
                   timers, watches, anim>>

\* The viewport changes; the next render recomputes the bar
ViewportChange ==
    /\ scale # NoScale
    /\ region' \in ViewRegions
    /\ screenW' \in WidthSet
    /\ scale' = NoScale
    /\ UNCHANGED <<loading, follow, platform, mapRef, runs, nRuns, gets, timers, watches, anim>>

ScaleNext ==
    \/ RenderScaleBar
    \/ ViewportChange

ScaleSpec == ScaleInit /\ [][ScaleNext]_vars

----------------------------------------------------------------------------
(* Claims *)

NiceSet == {10, 20, 50, 100, 200, 500, 1000, 2000}

SetMin(S) == CHOOSE x \in S : \A y \in S : x <= y
SetMax(S) == CHOOSE x \in S : \A y \in S : y <= x

\* The scale bar is on screen
Shown == scale # NoScale

\* The current viewport's meters per pixel and a distance's true pixel length
ViewMpp == metersPerPixel(region.latitude, region.longitudeDelta, screenW)
TruePx(m) == RDiv(Rat(m), ViewMpp)

Readable == {m \in NiceSet : RGeqInt(TruePx(m), 60) /\ RLeqInt(TruePx(m), 160)}
Below == {m \in NiceSet : RLtInt(TruePx(m), 60)}

\* C1: whenever some candidate's pixel length lies in [60, 160], the selected
\* distance is the smallest such candidate; for latitude 0, span 0.01 degree and
\* width 1000 px it is 100 m.
C1_FirstReadable ==
    Shown =>
        /\ Readable # {} => scale.scaleMeters = SetMin(Readable)
        /\ (region.latitude = 0 /\ region.longitudeDelta = 10 /\ screenW = 1000)
              => scale.scaleMeters = 100

C1_Witness ==
    /\ Shown
    /\ Cardinality(Readable) >= 2
    /\ scale.scaleMeters = SetMin(Readable)

\* C2 as stated: with no candidate in [60, 160], the selected distance is the
\* largest candidate below 60 px tested before one exceeded 160 px, or the
\* smallest candidate if the whole list is exhausted below 60 px.
C2_AsStated ==
    (Shown /\ Readable = {}) =>
        IF Below = NiceSet THEN scale.scaleMeters = SetMin(NiceSet)
        ELSE IF Below # {} THEN scale.scaleMeters = SetMax(Below)
        ELSE TRUE

\* C2 amended: with no candidate in [60, 160], the selected distance is the
\* largest candidate whose pixel length is below 60 (the largest candidate, 2000,
\* when the whole list is exhausted below 60), or the smallest candidate, 10,
\* when no candidate's pixel length is below 60.
C2_Fallback ==
    (Shown /\ Readable = {}) =>
        IF Below # {} THEN scale.scaleMeters = SetMax(Below)
        ELSE scale.scaleMeters = SetMin(NiceSet)

C2_Witness ==
    /\ Shown
    /\ Readable = {}
    /\ Below = NiceSet
    /\ scale.scaleMeters = 2000

\* C3: the bar length handed to the display lies in [40, 200]: it is the selected
\* candidate's true pixel length when that lies in [40, 200], 40 when it is
\* smaller and 200 when it is larger.
C3_BarClamped ==
    Shown =>
        LET px == TruePx(scale.scaleMeters)
        IN  /\ RGeqInt(scale.scalePx, 40)
            /\ RLeqInt(scale.scalePx, 200)
            /\ scale.scalePx = IF RLtInt(px, 40) THEN Rat(40)
                               ELSE IF RGtInt(px, 200) THEN Rat(200)
                               ELSE px

C3_Witness ==
    /\ Shown
    /\ RLtInt(TruePx(scale.scaleMeters), 40)
    /\ scale.scalePx = Rat(40)

\* C4: the selected distance is always one of {10, 20, 50, 100, 200, 500, 1000,
\* 2000}, also when no candidate falls in the readable range.
C4_NiceDistance == Shown => scale.scaleMeters \in NiceSet

C4_Witness ==
    /\ Shown
    /\ Readable = {}
    /\ Below = {}
    /\ scale.scaleMeters = 10

ExpectedTxt ==
    [m \in NiceSet |->
        CASE m = 10 -> "10 m"
          [] m = 20 -> "20 m"
          [] m = 50 -> "50 m"
          [] m = 100 -> "100 m"
          [] m = 200 -> "200 m"
          [] m = 500 -> "500 m"
          [] m = 1000 -> "1.0 km"
          [] m = 2000 -> "2.0 km"]

\* C5: the label is the selected distance's: kilometers with one decimal from
\* 1000 m on ("1.0 km", "2.0 km"), whole meters below ("500 m").
C5_Label == Shown => scale.scaleTxt = ExpectedTxt[scale.scaleMeters]

C5_Witness ==
    /\ Shown
    /\ scale.scaleMeters = 1000
    /\ scale.scaleTxt = "1.0 km"

\* C7: while follow is on and the map is on screen, every position the device
\* reports to the watches ends in a call of animateToRegion to the reported
\* coordinates.
C7_FollowTracks ==
    [][\A coords \in Coords :
          (follow /\ mapRef /\ LocationUpdate(coords)) =>
              /\ anim'.seq # anim.seq
              /\ anim'.by = "watch"
              /\ anim'.latitude = coords.latitude
              /\ anim'.longitude = coords.longitude]_vars

C7_Witness ==
    /\ follow
    /\ mapRef
    /\ nRuns = 3
    /\ Len(watches) = 3
    /\ anim.by = "watch"
    /\ region.latitude = anim.latitude
    /\ region.longitude = anim.longitude

\* C8: at most one position watch of the screen is active at any time.
C8_AtMostOneWatch == Len(watches) <= 1

\* C9: while follow is off, a position reported to the watches calls no
\* animateToRegion.
C9_FreeMapStays ==
    [][\A coords \in Coords :
          (~follow /\ LocationUpdate(coords)) => anim' = anim]_vars

\* C10: loading eventually becomes false and stays false, and the map is
\* mounted only while region is non-null and loading is false.
C10_LoadingEnds ==
    /\ <>[](~loading)
    /\ [](mapRef => (region # NULL /\ ~loading))

C10_Witness ==
    /\ ~loading
    /\ region = NULL
    /\ ~mapRef
    /\ watches = <<>>
    /\ runs = EmptyBag

====
